---- MODULE Spec2Model ----
(***************************************************************************)
(* phetch: the menu navigation engine (src/src/menu.rs) and the session    *)
(* history stack (src/src/ui.rs) as state machines.                        *)
(*                                                                         *)
(* Indices are 0-based as in the Rust source; Get(s, i) reads s[i].        *)
(* Strings the code inspects character by character (display names, the    *)
(* input buffer) are sequences of one-character strings.                   *)
(***************************************************************************)
EXTENDS Integers, Sequences, FiniteSets, TLC

\* ------------------------------------------------------------------------
\* Program constants
\* ------------------------------------------------------------------------
SCROLL_LINES == 15

\* usize::MAX.  The only wrapped values the code can produce are 0 - 1 and
\* rows + scroll - 2 with rows + scroll = 1, both usize::MAX; it is only ever
\* compared with lengths and indices, so the largest integer the model
\* checker represents stands for 2^64 - 1.
USIZE_MAX == 2147483647

\* ------------------------------------------------------------------------
\* Bounds of the model
\* ------------------------------------------------------------------------
MaxInput == 3      \* longest input buffer a key may produce
MaxOpens == 4      \* pages a session may open (page identities 1..MaxOpens)

\* ------------------------------------------------------------------------
\* Helpers
\* ------------------------------------------------------------------------
Get(s, i) == s[i + 1]

Range(s) == {s[k] : k \in 1..Len(s)}

\* Vec::pop / String::pop on a non-empty sequence
Pop(s) == SubSeq(s, 1, Len(s) - 1)

Digits == <<"0", "1", "2", "3", "4", "5", "6", "7", "8", "9">>

\* char::is_digit(10)
IsDigit(c) == c \in Range(Digits)

\* char::to_digit(10) of a digit
ToDigit(c) == CHOOSE d \in 0..9 : Digits[d + 1] = c

\* str::parse::<usize>: an optional '+' followed by at least one decimal
\* digit and nothing else; -1 stands for Err.
RECURSIVE DigitsValue(_)
DigitsValue(s) ==
  IF s = <<>> THEN 0
  ELSE DigitsValue(Pop(s)) * 10 + ToDigit(s[Len(s)])

ParseUsize(s) ==
  LET body == IF s # <<>> /\ s[1] = "+" THEN Tail(s) ELSE s
  IN  IF body # <<>> /\ \A k \in 1..Len(body) : IsDigit(body[k])
      THEN DigitsValue(body)
      ELSE -1

\* char::to_ascii_lowercase for the letters the model types
ToAsciiLowercaseChar(c) ==
  CASE c = "A" -> "a"
    [] c = "B" -> "b"
    [] c = "X" -> "x"
    [] OTHER   -> c

\* str::to_ascii_lowercase
ToAsciiLowercase(s) == [k \in 1..Len(s) |-> ToAsciiLowercaseChar(s[k])]

\* str::contains
Contains(s, sub) ==
  \E k \in 0..(Len(s) - Len(sub)) : SubSeq(s, k + 1, k + Len(sub)) = sub

\* ------------------------------------------------------------------------
\* Menu::parse.  A String is the sequence of its characters.
\* ------------------------------------------------------------------------
\* gopher::type_for_char (the gopher module is not part of the sources at
\* hand); "" stands for None.
TypeForChar(c) ==
  CASE c = "i" -> "Info"
    [] c = "0" -> "Text"
    [] c = "1" -> "Menu"
    [] c = "3" -> "Error"
    [] c = "7" -> "Search"
    [] c = "h" -> "HTML"
    [] OTHER   -> ""

\* gopher::parse_url(url).0 for the URL of a parsed line: the type is read
\* back from the type character that parse put in front of the selector.
UrlType(line) == line.typ

\* str::split(sep): the pieces between the separators, empty ones included
RECURSIVE Split(_, _)
Split(s, sep) ==
  IF \A i \in 1..Len(s) : s[i] # sep THEN <<s>>
  ELSE LET i == CHOOSE i \in 1..Len(s) : s[i] = sep /\ \A j \in 1..(i - 1) : s[j] # sep
       IN  <<SubSeq(s, 1, i - 1)>> \o Split(SubSeq(s, i + 1, Len(s)), sep)

\* str::split_terminator(sep): as split, without the last piece when empty
SplitTerminator(s, sep) ==
  LET p == Split(s, sep) IN IF p[Len(p)] = <<>> THEN Pop(p) ELSE p

\* str::trim_end_matches('\r')
RECURSIVE TrimEndCR(_)
TrimEndCR(s) ==
  IF s # <<>> /\ s[Len(s)] = "\r" THEN TrimEndCR(Pop(s)) ELSE s

\* str::starts_with
StartsWith(s, prefix) ==
  Len(s) >= Len(prefix) /\ SubSeq(s, 1, Len(prefix)) = prefix

\* chars().skip(n)
Skip(s, n) == SubSeq(s, n + 1, Len(s))

UrlMarker == <<"U", "R", "L", ":">>

GopherScheme == <<"g", "o", "p", "h", "e", "r", ":", "/", "/">>

DefaultPort == <<"7", "0">>

\* the name of a line: its first part without the type character
LineName(parts) == IF parts[1] # <<>> THEN Skip(parts[1], 1) ELSE <<>>

\* every line is numbered, Info lines too
LinkNumberCountsInfo(typ, n) == n + 1

\* the link number of a line of type typ after n numbered lines
LinkNumber(typ, n) == IF typ = "Info" THEN 0 ELSE n + 1

\* the regular URL with the port compared as it was sent, carriage return
\* included
GopherUrlKeepsCR(parts) ==
  GopherScheme
    \o (IF Len(parts) > 2 THEN parts[3] ELSE <<>>)
    \o (IF Len(parts) > 3 /\ parts[4] # DefaultPort
        THEN <<":">> \o TrimEndCR(parts[4]) ELSE <<>>)
    \o <<"/", parts[1][1]>>
    \o (IF Len(parts) > 1 /\ Len(parts[2]) = 0 THEN <<"/">> ELSE <<>>)
    \o (IF Len(parts) > 1 THEN parts[2] ELSE <<>>)

\* the regular URL without the slash after the type character of a line
\* with a blank selector
GopherUrlNoSlash(parts) ==
  GopherScheme
    \o (IF Len(parts) > 2 THEN parts[3] ELSE <<>>)
    \o (IF Len(parts) > 3 /\ TrimEndCR(parts[4]) # DefaultPort
        THEN <<":">> \o TrimEndCR(parts[4]) ELSE <<>>)
    \o <<"/", parts[1][1]>>
    \o (IF Len(parts) > 1 THEN parts[2] ELSE <<>>)

\* the regular gopher-style URL of a line split into parts
GopherUrl(parts) ==
  GopherScheme
    \o (IF Len(parts) > 2 THEN parts[3] ELSE <<>>)
    \o (IF Len(parts) > 3 /\ TrimEndCR(parts[4]) # DefaultPort
        THEN <<":">> \o TrimEndCR(parts[4]) ELSE <<>>)
    \o (IF parts[1] # <<>>
        THEN <<"/", parts[1][1]>>
               \o (IF Len(parts) = 0 \/ (Len(parts) > 1 /\ Len(parts[2]) = 0)
                   THEN <<"/">> ELSE <<>>)
        ELSE <<>>)
    \o (IF Len(parts) > 1 THEN parts[2] ELSE <<>>)

\* the regular URL for every line, URL: or not
LineUrlNoOverride(parts) == GopherUrl(parts)

\* the URL of a line: what follows URL: in the selector, or the regular URL
LineUrl(parts) ==
  IF Len(parts) > 1 /\ StartsWith(parts[2], UrlMarker)
  THEN Skip(parts[2], 4)
  ELSE GopherUrl(parts)

\* a line of no known type is taken as an Info line
TypeOfLineUnknownAsInfo(line) ==
  IF line = <<>> THEN ""
  ELSE IF TypeForChar(line[1]) = "" THEN "Info" ELSE TypeForChar(line[1])

\* the type of a line by its first character; "": none, the line is skipped
TypeOfLine(line) == IF line = <<>> THEN "" ELSE TypeForChar(line[1])

\* the loop of parse over the lines of the response: a line that is empty
\* or of no known type is passed over, any other gives one Line
RECURSIVE ParseEach(_)
ParseEach(ls) ==
  IF ls = <<>> THEN <<>>
  ELSE LET done  == ParseEach(Pop(ls))
           line  == ls[Len(ls)]
           typ   == TypeOfLine(line)
           parts == SplitTerminator(line, "\t")
           n     == Cardinality({k \in 1..Len(done) : done[k].link > 0})
       IN  IF typ = "" THEN done
           ELSE Append(done,
                       [name |-> LineName(parts),
                        url  |-> LineUrl(parts),
                        typ  |-> typ,
                        link |-> LinkNumber(typ, n)])

\* Menu.lines of the menu parse makes of a response
ParseLines(raw) == ParseEach(SplitTerminator(raw, "\n"))

\* links: the index in lines of every line with a link number
RECURSIVE ParseLinks(_)
ParseLinks(ls) ==
  IF ls = <<>> THEN <<>>
  ELSE IF ls[Len(ls)].link > 0
       THEN Append(ParseLinks(Pop(ls)), Len(ls) - 1)
       ELSE ParseLinks(Pop(ls))

\* ------------------------------------------------------------------------
\* The menus explored.  Each scenario is a server response, the characters
\* the user types on it and the terminal heights it is shown at.
\* ------------------------------------------------------------------------
\* one line of a response: type character, name and the three other fields
R(t, name, sel, host, port) ==
  <<t>> \o name \o <<"\t">> \o sel \o <<"\t">> \o host \o <<"\t">> \o port

\* a response: every line ended by a newline
RECURSIVE Response(_)
Response(ls) ==
  IF ls = <<>> THEN <<>> ELSE Response(Pop(ls)) \o ls[Len(ls)] \o <<"\n">>

\* the decimal digits of k
RECURSIVE Dec(_)
Dec(k) == IF k < 10 THEN <<Digits[k + 1]>> ELSE Dec(k \div 10) \o <<Digits[(k % 10) + 1]>>

Info(name) == R("i", name, <<"f">>, <<"h">>, DefaultPort)

Dir(name, sel) == R("1", name, sel, <<"h">>, DefaultPort)

\* 20 lines, 7 links scattered between Info lines
NavRaw ==
  Response(
  << Info(<<"t">>),            Dir(<<"a">>, <<"n", "1">>),   Dir(<<"b", "2">>, <<"n", "2">>),
     Info(<<"-">>),            Info(<<"-">>),            Dir(<<"A", "b">>, <<"n", "3">>),
     Info(<<"-">>),            Info(<<"-">>),            Info(<<"-">>),
     R("0", <<"a", "a">>, <<"n", "4">>, <<"h">>, <<"7", "1">>),  Info(<<"-">>),
     Info(<<"-">>),            Info(<<"-">>),            Info(<<"-">>),
     Info(<<"-">>),            Info(<<"-">>),            Dir(<<"b">>, <<"n", "5">>),
     Dir(<<"a", "2">>, <<>>),  Info(<<"-">>),            Dir(<<"2", "a">>, <<"n", "7">>) >>)

\* 18 lines, every one a link
DenseRaw == Response([k \in 1..18 |-> Dir(<<"d">>, <<"d">> \o Dec(k))])

\* one Info line and 9 links
NineRaw ==
  Response(<<Info(<<"t">>)>> \o [k \in 1..9 |-> Dir(<<"x", Digits[k + 1]>>, <<"s">> \o Dec(k))])

\* 15 links; link 4 is named "n19"
FifteenRaw ==
  Response([k \in 1..15 |->
              Dir(IF k = 4 THEN <<"n", "1", "9">> ELSE <<"n">>, <<"f">> \o Dec(k))])

\* 17 Info lines, no link
InfoRaw == Response([k \in 1..17 |-> Info(<<"-">>)])

\* a search link, a line of unknown type (dropped by parse) and two links
\* with mixed-case names
SearchRaw ==
  Response(
  << R("7", <<"F", "i", "n", "d">>, <<"q">>, <<"h">>, DefaultPort),
     R("?", <<"z">>, <<"z">>, <<"h">>, DefaultPort),
     Dir(<<"A", "b", "X">>, <<"c", "1">>),
     R("h", <<"a", "B">>, <<"c", "2">>, <<"h">>, DefaultPort) >>)

Scenarios ==
  << [raw |-> NavRaw,     chars |-> {"2", "a"},                 rows |-> {5, 24}],
     [raw |-> DenseRaw,   chars |-> {},                         rows |-> {4, 24}],
     [raw |-> NineRaw,    chars |-> Range(Digits) \cup {"+"},   rows |-> {24}],
     [raw |-> FifteenRaw, chars |-> Range(Digits),              rows |-> {24}],
     [raw |-> InfoRaw,    chars |-> {"a"},                      rows |-> {5, 24}],
     [raw |-> SearchRaw,  chars |-> {"1", "B"},                 rows |-> {1, 24}] >>

\* the queries the prompt may give for a Search link
Queries == {<<"q">>}


\* ------------------------------------------------------------------------
\* State
\* ------------------------------------------------------------------------
VARIABLES
  scn,       \* which scenario this menu is (fixed after Init)
  raw,       \* the response Menu::parse is given (kept as Menu.raw)
  lines,     \* Menu.lines
  links,     \* Menu.links: index in lines of each link
  input,     \* Menu.input
  link,      \* Menu.link: selected link
  scroll,    \* Menu.scroll
  size,      \* Menu.size: <<cols, rows>>
  wide,      \* Menu.wide
  key,       \* the last key process_key handled
  action,    \* the Action process_key returned for it
  panicked,  \* the process died of an arithmetic overflow panic
  pages,     \* UI.pages: the views of the history, each <<url, identity>>
  page,      \* UI.page: currently focused page
  dirty,     \* UI.dirty
  running,   \* UI.running
  pc,        \* where the session is: "start", "draw", "update", "done",
             \* "exit" (process::exit) or "panic"; for a response on its
             \* way into a menu: "fetched", then "parsed"
  opened,    \* number of pages opened so far (the next page's identity - 1)
  uiKey,     \* the last key process_page_input read
  uiView,    \* the Action the current view returned for it
  uiAction,  \* the Action process_page_input returned for it
  before,    \* <<pages, page, dirty>> when the last open or key began
  response,  \* what the last gopher::fetch gave: "Ok", "Err", "None" before any
  args,      \* args::parse: the argument list it is given
  iter,      \* the number of arguments the loop has taken from it
  cfg,       \* the Config being built: mode, start, tls, tor
  set,       \* the locals set_tls, set_notls, set_tor, set_notor, set_cfg, set_nocfg
  got_url,   \* the local got_url
  argpc,     \* where args::parse is: "idle" (not called), "load", "loop", "returned"
  ret,       \* what it returned: "Ok" (with cfg) or the text of the ArgError
  rendered,  \* whether the last UI::draw printed the page
  mpc,       \* where main.rs's main is: "idle" (not run), "start", "render",
             \* "respond", "keys" (term_input reading), "exit" or "panic"
  mlinks,    \* main.rs: page.links.len() of the page under App.cursor
  mcursor,   \* main.rs: Page.cursor of that page
  minput,    \* main.rs: term_input's local input
  mkey,      \* main.rs: the last key term_input read
  maction    \* main.rs: the last Action term_input returned

menuVars == <<scn, raw, lines, links, input, link, scroll, size, wide, key, action, panicked>>

uiVars == <<pages, page, dirty, running, pc, opened, uiKey, uiView, uiAction, before, rendered, response>>

argVars == <<args, iter, cfg, set, got_url, argpc, ret>>

mainVars == <<mpc, mlinks, mcursor, minput, mkey, maction>>

vars == <<menuVars, uiVars, argVars, mainVars>>

\* ------------------------------------------------------------------------
\* Action values
\* ------------------------------------------------------------------------
Act(kind, arg) == [kind |-> kind, arg |-> arg]

None == Act("None", "")

Redraw == Act("Redraw", "")

Back == Act("Back", "")

Forward == Act("Forward", "")

Quit == Act("Quit", "")

Unknown == Act("Unknown", "")

Open(url) == Act("Open", url)

Clipboard(url) == Act("Clipboard", url)

Keypress(k) == Act("Keypress", k)

\* ------------------------------------------------------------------------
\* The menu's handlers as functions of the mutable fields
\*   m = [scroll, link, input, wide]
\* Each yields the set of outcomes [m, act, panic] the handler can have:
\* more than one where the prompt answers, or where an unsigned subtraction
\* underflows (a panic in a build with overflow checks, usize::MAX without).
\* ------------------------------------------------------------------------
Rows == size[2]

Fields == [scroll |-> scroll, link |-> link, input |-> input, wide |-> wide]

Ret(m, act) == [m |-> m, act |-> act, panic |-> FALSE]

Panic(m) == [m |-> m, act |-> None, panic |-> TRUE]

\* Menu::link
LinkLine(i) ==
  IF i < Len(links) /\ Get(links, i) < Len(lines)
  THEN <<Get(lines, Get(links, i))>>
  ELSE <<>>

\* link_visibility counting the row of the input line as one that shows a
\* line of the page
LinkVisibilityThroughLastRow(i, sc) ==
  IF i < Len(links)
  THEN LET pos == Get(links, i)
       IN  IF pos < sc THEN "Above"
           ELSE IF pos >= sc + Rows THEN "Below"
           ELSE "Visible"
  ELSE ""

\* Menu::link_visibility; "" stands for None
LinkVisibility(i, sc) ==
  IF i < Len(links)
  THEN LET pos == Get(links, i)
       IN  IF pos < sc THEN "Above"
           ELSE IF pos >= sc + Rows - 1 THEN "Below"
           ELSE "Visible"
  ELSE ""

\* what rows - 1 of render_lines may be: for rows = 0 the subtraction
\* underflows, which panics (-1 here) or wraps
RenderTake == IF Rows >= 1 THEN {Rows - 1} ELSE {-1, USIZE_MAX}

\* render_lines: the positions of the lines that
\* lines.iter().skip(scroll).take(n) goes through, in the order they are
\* emitted, for the scroll sc
RenderLines(sc, n) ==
  LET left == IF Len(lines) > sc THEN Len(lines) - sc ELSE 0
      len  == IF n < left THEN (IF n > 0 THEN n ELSE 0) ELSE left
  IN  [k \in 1..len |-> sc + k - 1]

\* Menu::redraw_input
RedrawInput(m) == Ret(m, None)

\* action_page_down taking the found line's link number for its index
ActionPageDownOneBased(m) ==
  LET n == Len(lines)
  IN  IF n > SCROLL_LINES /\ m.scroll < n - SCROLL_LINES
      THEN LET sc    == m.scroll + SCROLL_LINES
               found == {k \in m.link..(Len(links) - 1) : Get(links, k) >= sc}
               first == CHOOSE k \in found : \A j \in found : k <= j
               new   == IF LinkVisibility(m.link, sc) = "Above" /\ found # {}
                        THEN Get(lines, Get(links, first)).link
                        ELSE m.link
           IN  {Ret([m EXCEPT !.scroll = sc, !.link = new], Redraw)}
      ELSE {Ret(m, None)}

\* Menu::action_page_down
ActionPageDown(m) ==
  LET n == Len(lines)
  IN  IF n > SCROLL_LINES /\ m.scroll < n - SCROLL_LINES
      THEN LET sc    == m.scroll + SCROLL_LINES
               found == {k \in m.link..(Len(links) - 1) : Get(links, k) >= sc}
               first == CHOOSE k \in found : \A j \in found : k <= j
               new   == IF LinkVisibility(m.link, sc) = "Above" /\ found # {}
                        THEN Get(lines, Get(links, first)).link - 1
                        ELSE m.link
           IN  {Ret([m EXCEPT !.scroll = sc, !.link = new], Redraw)}
      ELSE {Ret(m, None)}

\* the Below branch of action_page_up: the last link before the selected one
\* whose line is under `limit` (= rows + scroll - 2)
PageUpReselect(m, limit) ==
  LET found == {k \in 0..(m.link - 1) : Get(links, k) < limit}
      last  == CHOOSE k \in found : \A j \in found : k >= j
  IN  IF found # {}
      THEN Ret([m EXCEPT !.link = Get(lines, Get(links, last)).link], Redraw)
      ELSE Ret(m, Redraw)

\* Menu::action_page_up
ActionPageUp(m) ==
  IF m.scroll > 0
  THEN LET sc == IF m.scroll > SCROLL_LINES THEN m.scroll - SCROLL_LINES ELSE 0
           m1 == [m EXCEPT !.scroll = sc]
       IN  IF m.link = 0 THEN {Ret(m1, Redraw)}
           ELSE IF LinkVisibility(m.link, sc) = "Below"
                THEN IF Rows + sc < 2
                     THEN {Panic(m1), PageUpReselect(m1, USIZE_MAX)}
                     ELSE {PageUpReselect(m1, Rows + sc - 2)}
                ELSE {Ret(m1, Redraw)}
  ELSE IF m.link > 0 THEN {Ret([m EXCEPT !.link = 0], Redraw)}
  ELSE {Ret(m, None)}

\* action_up selecting the link above without looking whether the one-line
\* scroll made it visible
ActionUpAlwaysSelect(m) ==
  IF m.link = 0
  THEN IF m.scroll > 0
       THEN {Ret([m EXCEPT !.scroll = m.scroll - 1], Redraw)}
       ELSE {Ret(m, None)}
  ELSE LET new == m.link - 1
           dir == LinkVisibility(new, m.scroll)
           up  == IF m.scroll > 0 THEN m.scroll - 1 ELSE m.scroll
       IN  CASE dir = "Above" ->
                  {Ret([m EXCEPT !.scroll = up, !.link = new], Redraw)}
             [] dir = "Below" ->
                  {Ret([m EXCEPT !.scroll = Get(links, new), !.link = new], Redraw)}
             [] dir = "Visible" ->
                  {Ret([m EXCEPT !.link = new], Redraw)}
             [] OTHER -> {Ret(m, None)}

\* Up that stays put on the first link, scrolled or not
ActionUpStopsAtFirstLink(m) ==
  IF m.link = 0
  THEN {Ret(m, None)}
  ELSE ActionUpAlwaysSelect(m)

\* Menu::action_up
ActionUp(m) ==
  IF m.link = 0
  THEN IF m.scroll > 0
       THEN {Ret([m EXCEPT !.scroll = m.scroll - 1], Redraw)}
       ELSE {Ret(m, None)}
  ELSE LET new == m.link - 1
           dir == LinkVisibility(new, m.scroll)
           up  == IF m.scroll > 0 THEN m.scroll - 1 ELSE m.scroll
       IN  CASE dir = "Above" ->
                  {Ret([m EXCEPT !.scroll = up,
                                 !.link = IF LinkVisibility(new, up) = "Visible"
                                          THEN new ELSE m.link], Redraw)}
             [] dir = "Below" ->
                  {Ret([m EXCEPT !.scroll = Get(links, new), !.link = new], Redraw)}
             [] dir = "Visible" ->
                  {Ret([m EXCEPT !.link = new], Redraw)}
             [] OTHER -> {Ret(m, None)}

\* action_down after its first test
DownRest(m) ==
  LET count == Len(links)
      new   == m.link + 1
      dir   == LinkVisibility(new, m.scroll)
      down  == m.scroll + 1
  IN  IF /\ count > 0
         /\ m.link = count - 1
         /\ Len(lines) > m.link
         /\ m.scroll > SCROLL_LINES
         /\ count > m.scroll - SCROLL_LINES
      THEN {Ret([m EXCEPT !.scroll = down], Redraw)}
      ELSE IF count > 0 /\ m.link < count - 1
           THEN CASE dir = "Above" ->
                       {Ret([m EXCEPT !.scroll = Get(links, new), !.link = new], Redraw)}
                  [] dir = "Below" ->
                       {Ret([m EXCEPT !.scroll = down,
                                      !.link = IF LinkVisibility(new, down) = "Visible"
                                               THEN new ELSE m.link], Redraw)}
                  [] dir = "Visible" ->
                       {Ret([m EXCEPT !.link = new], Redraw)}
                  [] OTHER -> {Ret(m, None)}
           ELSE {Ret(m, None)}

\* Menu::action_down.  `count - 1` of the first test is evaluated only when
\* there is more content below the window; with no link it underflows.
ActionDown(m) ==
  LET count == Len(links)
      more  == Len(lines) > Rows + m.scroll - 1
  IN  IF more /\ count = 0
      THEN {Panic(m)} \cup (IF m.link = USIZE_MAX
                            THEN {Ret([m EXCEPT !.scroll = m.scroll + 1], Redraw)}
                            ELSE DownRest(m))
      ELSE IF more /\ m.link = count - 1
           THEN {Ret([m EXCEPT !.scroll = m.scroll + 1], Redraw)}
           ELSE DownRest(m)

\* Menu::action_select_link
ActionSelectLink(m, i) ==
  IF i < Len(links)
  THEN LET line == Get(links, i)
           sc   == IF LinkVisibility(i, m.scroll) # "Visible"
                   THEN (IF line > SCROLL_LINES THEN line - SCROLL_LINES ELSE 0)
                   ELSE m.scroll
       IN  Ret([m EXCEPT !.scroll = sc, !.link = i], Redraw)
  ELSE Ret(m, None)

\* Enter opening the URL of a Search link as it stands, without a prompt
ActionOpenNeverPrompts(m) ==
  LET m1   == [m EXCEPT !.input = <<>>]
      line == LinkLine(m.link)
  IN  IF line # <<>>
      THEN {Ret(m1, Open(line[1].url))}
      ELSE {Ret(m1, None)}

\* Menu::action_open; ui::prompt answers with a query or with nothing
ActionOpen(m) ==
  LET m1   == [m EXCEPT !.input = <<>>]
      line == LinkLine(m.link)
  IN  IF line # <<>>
      THEN IF UrlType(line[1]) = "Search"
           THEN {Ret(m1, Open(line[1].url \o <<"?">> \o q)) : q \in Queries}
                  \cup {Ret(m1, None)}
           ELSE {Ret(m1, Open(line[1].url))}
      ELSE {Ret(m1, None)}

\* Menu::action_follow_link
ActionFollowLink(m, i) ==
  ActionOpen(ActionSelectLink([m EXCEPT !.input = <<>>], i).m)

\* the numeric jump following every valid number at once, never waiting for
\* a longer one
NumericJumpEager(m, num) ==
  IF num = 0
  THEN {Panic(m), ActionSelectLink(m, USIZE_MAX)}
  ELSE ActionFollowLink(m, num - 1)

\* the numeric jump of process_key's Key::Char(c) arm for a buffer that reads
\* as num <= count; num - 1 underflows for num = 0, which always takes the
\* select branch (count < 0 is false)
NumericJump(m, num) ==
  IF Len(links) < num * 10
  THEN ActionFollowLink(m, num - 1)
  ELSE IF num = 0
       THEN {Panic(m), ActionSelectLink(m, USIZE_MAX)}
       ELSE {ActionSelectLink(m, num - 1)}

\* the name search comparing the buffer and the names as they are typed
NameSearchCaseSensitive(m) ==
  LET hits  == {i \in 0..(Len(links) - 1) :
                  LET l == LinkLine(i)
                  IN  Contains(IF l # <<>> THEN l[1].name ELSE <<>>, m.input)}
      first == CHOOSE i \in hits : \A j \in hits : i <= j
  IN  IF hits # {} THEN ActionSelectLink(m, first) ELSE RedrawInput(m)

\* the name search of process_key's Key::Char(c) arm
NameSearch(m) ==
  LET query == ToAsciiLowercase(m.input)
      hits  == {i \in 0..(Len(links) - 1) :
                  LET l == LinkLine(i)
                  IN  Contains(IF l # <<>> THEN ToAsciiLowercase(l[1].name) ELSE <<>>,
                               query)}
      first == CHOOSE i \in hits : \A j \in hits : i <= j
  IN  IF hits # {} THEN ActionSelectLink(m, first) ELSE RedrawInput(m)

\* the three-character arm reading only two characters, as the arm above it
BufferNumberTakeTwo(inp) ==
  IF Len(inp) = 1
  THEN (IF IsDigit(inp[1]) THEN ToDigit(inp[1]) ELSE -1)
  ELSE IF Len(inp) = 2 THEN ParseUsize(SubSeq(inp, 1, 2))
  ELSE IF Len(inp) = 3 THEN ParseUsize(SubSeq(inp, 1, 2))
  ELSE -1

\* the number the buffer reads as in the Key::Char(c) arm; -1 if none
BufferNumber(inp) ==
  IF Len(inp) = 1
  THEN (IF IsDigit(inp[1]) THEN ToDigit(inp[1]) ELSE -1)
  ELSE IF Len(inp) = 2 THEN ParseUsize(SubSeq(inp, 1, 2))
  ELSE IF Len(inp) = 3 THEN ParseUsize(SubSeq(inp, 1, 3))
  ELSE -1

\* process_key, Key::Char(c) arm
ProcessChar(m, c) ==
  LET m1  == [m EXCEPT !.input = Append(m.input, c)]
      num == BufferNumber(m1.input)
  IN  IF num >= 0 /\ num <= Len(links)
      THEN NumericJump(m1, num)
      ELSE {NameSearch(m1)}

\* Backspace going back as soon as it has emptied the buffer
ProcessBackspaceBackWhenEmptied(m) ==
  IF m.input = <<>> \/ Len(m.input) = 1
  THEN Ret([m EXCEPT !.input = <<>>], Back)
  ELSE RedrawInput([m EXCEPT !.input = Pop(m.input)])

\* process_key, Key::Backspace | Key::Delete arm
ProcessBackspace(m) ==
  IF m.input = <<>>
  THEN Ret(m, Back)
  ELSE RedrawInput([m EXCEPT !.input = Pop(m.input)])

\* process_key, Key::Esc arm
ProcessEsc(m) ==
  IF m.input # <<>>
  THEN RedrawInput([m EXCEPT !.input = <<>>])
  ELSE Ret(m, None)

\* Ctrl-C quitting whatever the buffer holds
ProcessCtrlCAlwaysQuits(m) == Ret(m, Quit)

\* process_key, Key::Ctrl('c') arm
ProcessCtrlC(m) ==
  IF m.input # <<>>
  THEN RedrawInput([m EXCEPT !.input = <<>>])
  ELSE Ret(m, Quit)

\* process_key, Key::Char('-') arm
ProcessDash(m) ==
  IF m.input = <<>>
  THEN ActionPageUp(m)
  ELSE {RedrawInput([m EXCEPT !.input = Append(m.input, "-")])}

\* process_key, Key::Char(' ') arm
ProcessSpace(m) ==
  IF m.input = <<>>
  THEN ActionPageDown(m)
  ELSE {RedrawInput([m EXCEPT !.input = Append(m.input, " ")])}

\* process_key, Key::Ctrl('w') arm
ProcessCtrlW(m) == Ret([m EXCEPT !.wide = ~m.wide], Redraw)

\* ------------------------------------------------------------------------
\* args::parse: the command line
\* ------------------------------------------------------------------------
Config(mode, start, tls, tor) == [mode |-> mode, start |-> start, tls |-> tls, tor |-> tor]

\* config::default() (the config module is not part of the sources at hand;
\* the tests of args.rs expect tls off, and --tls alone to be accepted)
DefaultConfig == Config("Run", "default", FALSE, FALSE)

\* the configurations a config file may hold
Configs == {Config("Run", "default", tls, tor) : tls, tor \in BOOLEAN}

\* what config::load and config::load_file may give: Ok(config) or Err
Loads ==
  {[ok |-> TRUE, config |-> c] : c \in Configs}
    \cup {[ok |-> FALSE, config |-> DefaultConfig]}

NoFlags ==
  [set_tls |-> FALSE, set_notls |-> FALSE, set_tor |-> FALSE,
   set_notor |-> FALSE, set_cfg |-> FALSE, set_nocfg |-> FALSE]

\* args::parse has not been called
ArgsIdle ==
  /\ args = <<>>
  /\ iter = 0
  /\ cfg = DefaultConfig
  /\ set = NoFlags
  /\ got_url = FALSE
  /\ argpc = "idle"
  /\ ret = ""

\* ------------------------------------------------------------------------
\* Session state before any page: UI::new
\* ------------------------------------------------------------------------
UINew ==
  /\ pages = <<>>
  /\ page = 0
  /\ dirty = TRUE
  /\ running = TRUE
  /\ pc = "start"
  /\ opened = 0
  /\ uiKey = ""
  /\ uiView = None
  /\ uiAction = None
  /\ before = <<<<>>, 0, TRUE>>
  /\ rendered = FALSE
  /\ response = "None"

\* ------------------------------------------------------------------------
\* The menu as a state machine: one action per arm of process_key
\* ------------------------------------------------------------------------
\* Menu::parse of one of the scenarios' responses
MenuInit ==
  /\ scn \in DOMAIN Scenarios
  /\ raw = Scenarios[scn].raw
  /\ lines = ParseLines(raw)
  /\ links = ParseLinks(lines)
  /\ input = <<>>
  /\ link = 0
  /\ scroll = 0
  /\ size = <<0, 0>>
  /\ wide = FALSE
  /\ key = ""
  /\ action = None
  /\ panicked = FALSE

\* main.rs's main is not run
MainIdle ==
  /\ mpc = "idle"
  /\ mlinks = 0
  /\ mcursor = 0
  /\ minput = <<>>
  /\ mkey = ""
  /\ maction = "None"

Init == MenuInit /\ UINew /\ ArgsIdle /\ MainIdle

\* Menu::term_size, called by the session before each render with what the
\* terminal reports
TermSize ==
  /\ ~panicked
  /\ \E rows \in Scenarios[scn].rows : size' = <<80, rows>>
  /\ UNCHANGED <<scn, raw, lines, links, input, link, scroll, wide, key, action, panicked>>
  /\ UNCHANGED uiVars
  /\ UNCHANGED <<argVars, mainVars>>

\* A key reaches the menu only after the session has rendered it once
\* (UI::run draws before it reads), so the size is set.
CanKey == ~panicked /\ size # <<0, 0>>

\* the handler's outcome o for key k becomes the new state
Respond(k, o) ==
  /\ key' = k
  /\ action' = o.act
  /\ panicked' = o.panic
  /\ scroll' = o.m.scroll
  /\ link' = o.m.link
  /\ input' = o.m.input
  /\ wide' = o.m.wide
  /\ UNCHANGED <<scn, raw, lines, links, size>>
  /\ UNCHANGED uiVars
  /\ UNCHANGED <<argVars, mainVars>>

KeyEnter == CanKey /\ \E o \in ActionOpen(Fields) : Respond("Enter", o)

\* Key::Up | Key::Ctrl('p')
KeyUp == CanKey /\ \E o \in ActionUp(Fields) : Respond("Up", o)

\* Key::Down | Key::Ctrl('n')
KeyDown == CanKey /\ \E o \in ActionDown(Fields) : Respond("Down", o)

KeyCtrlW == CanKey /\ Respond("CtrlW", ProcessCtrlW(Fields))

\* Key::Backspace | Key::Delete
KeyBackspace == CanKey /\ Respond("Backspace", ProcessBackspace(Fields))

KeyEsc == CanKey /\ Respond("Esc", ProcessEsc(Fields))

KeyCtrlC == CanKey /\ Respond("CtrlC", ProcessCtrlC(Fields))

KeyDash ==
  /\ CanKey
  /\ Len(input) < MaxInput
  /\ \E o \in ProcessDash(Fields) : Respond("-", o)

KeyPageUp == CanKey /\ \E o \in ActionPageUp(Fields) : Respond("PageUp", o)

KeyPageDown == CanKey /\ \E o \in ActionPageDown(Fields) : Respond("PageDown", o)

KeySpace ==
  /\ CanKey
  /\ Len(input) < MaxInput
  /\ \E o \in ProcessSpace(Fields) : Respond(" ", o)

KeyChar ==
  /\ CanKey
  /\ Len(input) < MaxInput
  /\ \E c \in Scenarios[scn].chars : \E o \in ProcessChar(Fields, c) : Respond(c, o)

\* any other key: Action::Keypress(key)
KeyOther == CanKey /\ Respond("Left", Ret(Fields, Keypress("Left")))

Next ==
  \/ TermSize
  \/ KeyEnter
  \/ KeyUp
  \/ KeyDown
  \/ KeyCtrlW
  \/ KeyBackspace
  \/ KeyEsc
  \/ KeyCtrlC
  \/ KeyDash
  \/ KeyPageUp
  \/ KeyPageDown
  \/ KeySpace
  \/ KeyChar
  \/ KeyOther

Spec == Init /\ [][Next]_vars

\* ------------------------------------------------------------------------
\* The session: UI::run over the history stack
\* ------------------------------------------------------------------------
\* the addresses a session opens, with the type gopher::parse_url reads from
\* each (the gopher module is not part of the sources at hand)
Urls == {"gopher://a/1/", "gopher://b/0/t", "gopher://c/9/bin"}

ParseUrlType(url) ==
  CASE url = "gopher://a/1/"  -> "Menu"
    [] url = "gopher://b/0/t" -> "Text"
    [] OTHER                  -> "Binary"

\* add_page without the truncation of the pages after the current one
AddPageNoTruncate(ps, p, view) ==
  LET grown == Append(ps, view)
  IN  <<grown, IF Len(grown) > 1 THEN p + 1 ELSE p>>

\* UI::add_page on history ps with current index p: <<pages, page>> after
AddPage(ps, p, view) ==
  LET kept == IF ps # <<>> /\ p < Len(ps) - 1 THEN SubSeq(ps, 1, p + 1) ELSE ps
      grown == Append(kept, view)
  IN  <<grown, IF Len(grown) > 1 THEN p + 1 ELSE p>>

\* an open that gives up on a failed fetch and lets the session go on
UIOpenUrlGoesOn(url, fetched, next) ==
  /\ opened < MaxOpens
  /\ dirty' = TRUE
  /\ response' = IF fetched THEN "Ok" ELSE "Err"
  /\ IF fetched /\ ParseUrlType(url) \in {"Menu", "Text", "HTML"}
     THEN LET added == AddPage(pages, page, <<url, opened + 1>>)
          IN  /\ pages' = added[1]
              /\ page' = added[2]
              /\ opened' = opened + 1
              /\ pc' = next
     ELSE pc' = next /\ UNCHANGED <<pages, page, opened>>

\* UI::open; fetched says whether gopher::fetch gave a response.
\* `next` is where the session goes on when the page was added.
UIOpenUrl(url, fetched, next) ==
  /\ opened < MaxOpens
  /\ dirty' = TRUE
  /\ response' = IF fetched THEN "Ok" ELSE "Err"
  /\ IF ~fetched
     THEN pc' = "exit" /\ UNCHANGED <<pages, page, opened>>
     ELSE IF ParseUrlType(url) \in {"Menu", "Text", "HTML"}
          THEN LET added == AddPage(pages, page, <<url, opened + 1>>)
               IN  /\ pages' = added[1]
                   /\ page' = added[2]
                   /\ opened' = opened + 1
                   /\ pc' = next
          ELSE pc' = "panic" /\ UNCHANGED <<pages, page, opened>>

\* the program opens its start address, then runs the loop
UIStart ==
  /\ pc = "start"
  /\ \E url \in Urls, fetched \in BOOLEAN : UIOpenUrl(url, fetched, "draw")
  /\ before' = <<pages, page, dirty>>
  /\ UNCHANGED <<running, uiKey, uiView, uiAction, rendered>>
  /\ UNCHANGED menuVars
  /\ UNCHANGED <<argVars, mainVars>>

\* a draw that prints the page whether it is dirty or not
UIDrawAlways ==
  /\ pc = "draw"
  /\ rendered' = TRUE
  /\ dirty' = FALSE
  /\ pc' = "update"
  /\ UNCHANGED <<pages, page, running, opened, uiKey, uiView, uiAction, before, response>>
  /\ UNCHANGED menuVars
  /\ UNCHANGED <<argVars, mainVars>>

\* UI::draw, first half of an iteration of UI::run
UIDraw ==
  /\ pc = "draw"
  /\ rendered' = dirty
  /\ dirty' = FALSE
  /\ pc' = "update"
  /\ UNCHANGED <<pages, page, running, opened, uiKey, uiView, uiAction, before, response>>
  /\ UNCHANGED menuVars
  /\ UNCHANGED <<argVars, mainVars>>

UIKeys == {"CtrlQ", "CtrlC", "Left", "Backspace", "Right", "Enter", "CtrlY", "Up"}

\* what a view may answer to a key
ViewActions ==
  {None, Back, Forward, Redraw, Quit, Unknown}
    \cup {Open(u) : u \in Urls}
    \cup {Clipboard(u) : u \in Urls}

\* the global bindings of process_page_input; Unknown: no binding, the key is
\* dropped and the next one is read
GlobalBinding(k, cur) ==
  CASE k \in {"CtrlQ", "CtrlC"}    -> Quit
    [] k \in {"Left", "Backspace"} -> Back
    [] k = "Right"                 -> Forward
    [] k = "Enter"                 -> Redraw
    [] k = "CtrlY"                 -> Clipboard(cur)
    [] OTHER                       -> Unknown

\* the global bindings are tried before the view's answer
PageInputGlobalFirst(k, view, cur) ==
  IF GlobalBinding(k, cur) # Unknown THEN GlobalBinding(k, cur) ELSE view

\* UI::process_page_input for one key: what it returns, or Unknown when it
\* goes on reading
PageInput(k, view, cur) == IF view = Unknown THEN GlobalBinding(k, cur) ELSE view

\* the loop after UI::update: again while running
Loop(run) == IF run THEN "draw" ELSE "done"

\* a key is read and the view and the bindings make action a of it
Reads(a) ==
  /\ pc = "update"
  /\ \E k \in UIKeys, view \in ViewActions :
       /\ PageInput(k, view, pages[page + 1][1]) = a
       /\ uiKey' = k
       /\ uiView' = view
  /\ uiAction' = a
  /\ before' = <<pages, page, dirty>>
  /\ UNCHANGED rendered
  /\ UNCHANGED menuVars
  /\ UNCHANGED <<argVars, mainVars>>

\* process_input, Action::Redraw arm
UIRedraw ==
  /\ Reads(Redraw)
  /\ dirty' = TRUE
  /\ pc' = Loop(running)
  /\ UNCHANGED <<pages, page, running, opened, response>>

\* process_input, Action::Open arm
UIOpen ==
  \E url \in Urls, fetched \in BOOLEAN :
    /\ Reads(Open(url))
    /\ UIOpenUrl(url, fetched, Loop(running))
    /\ UNCHANGED running

\* Back sends the session to the first page
UIBackToFirst ==
  /\ Reads(Back)
  /\ IF page > 0
     THEN dirty' = TRUE /\ page' = 0
     ELSE UNCHANGED <<dirty, page>>
  /\ pc' = Loop(running)
  /\ UNCHANGED <<pages, running, opened, response>>

\* process_input, Action::Back arm
UIBack ==
  /\ Reads(Back)
  /\ IF page > 0
     THEN dirty' = TRUE /\ page' = page - 1
     ELSE UNCHANGED <<dirty, page>>
  /\ pc' = Loop(running)
  /\ UNCHANGED <<pages, running, opened, response>>

\* Forward moves on even from the last page
UIForwardPastEnd ==
  /\ Reads(Forward)
  /\ dirty' = TRUE
  /\ page' = page + 1
  /\ pc' = Loop(running)
  /\ UNCHANGED <<pages, running, opened, response>>

\* process_input, Action::Forward arm
UIForward ==
  /\ Reads(Forward)
  /\ IF page < Len(pages) - 1
     THEN dirty' = TRUE /\ page' = page + 1
     ELSE UNCHANGED <<dirty, page>>
  /\ pc' = Loop(running)
  /\ UNCHANGED <<pages, running, opened, response>>

\* process_input, Action::Clipboard arm
UIClipboard ==
  /\ \E url \in Urls : Reads(Clipboard(url))
  /\ pc' = Loop(running)
  /\ UNCHANGED <<pages, page, dirty, running, opened, response>>

\* a Quit that UI::update lets pass: the loop goes on
UIQuitIgnored ==
  /\ Reads(Quit)
  /\ pc' = Loop(running)
  /\ UNCHANGED <<pages, page, dirty, running, opened, response>>

\* process_input passes Quit on and UI::update stops the loop
UIQuit ==
  /\ Reads(Quit)
  /\ running' = FALSE
  /\ pc' = Loop(FALSE)
  /\ UNCHANGED <<pages, page, dirty, opened, response>>

\* process_input passes None on
UINone ==
  /\ Reads(None)
  /\ pc' = Loop(running)
  /\ UNCHANGED <<pages, page, dirty, running, opened, response>>

\* a key neither the view nor the bindings know: process_page_input reads on
UIDropped ==
  /\ Reads(Unknown)
  /\ UNCHANGED <<pages, page, dirty, running, pc, opened, response>>

UINext ==
  \/ UIStart
  \/ UIDraw
  \/ UIRedraw
  \/ UIOpen
  \/ UIBack
  \/ UIForward
  \/ UIClipboard
  \/ UIQuit
  \/ UINone
  \/ UIDropped

\* the session is explored with the menu fields at rest
InitUI == Init /\ scn = 1

SpecUI == InitUI /\ [][UINext]_vars

\* ------------------------------------------------------------------------
\* Menu::parse on the responses a server may send
\* ------------------------------------------------------------------------
MaxLines == 2

Tab == <<"\t">>

\* the lines responses are made of: well-formed ones, short ones, ones with
\* a carriage return, with URL:, empty and of unknown type
RawLines ==
  { <<>>,
    <<"?", "z">>,
    <<"i", "T">>,
    <<"1">>,
    R("1", <<"A">>, <<"s">>, <<"h">>, DefaultPort),
    R("1", <<"A">>, <<>>, <<"e">>, DefaultPort),
    R("0", <<"B">>, <<"t">>, <<"h">>, <<"7", "1", "\r">>),
    R("1", <<"A">>, <<"s">>, <<"h">>, <<"7", "0", "\r">>),
    R("1", <<"A">>, <<>>, <<"h">>, <<"\r">>),
    R("h", <<"W">>, UrlMarker \o <<"w">>, <<"h">>, <<"7", "1">>),
    R("i", <<"T">>, UrlMarker, <<"h">>, DefaultPort),
    <<"1", "A">> \o Tab \o <<"U", "R", "L">>,
    <<"1", "A">> \o Tab \o <<"s">> \o Tab \o <<"h">>,
    <<"7", "A">> \o Tab \o <<"s">>,
    <<"1", "A">> \o Tab,
    R("1", <<"A">>, <<"s">>, <<"h">>, DefaultPort) \o Tab \o <<"+">> }

\* the response of tests::test_simple_menu, names and hosts shortened
SimpleMenuRaw ==
  <<"\n">> \o Response(<< <<"i", "-">>,
                          R("1", <<"P">>, <<"/", "p", "/">>, <<"c">>, DefaultPort),
                          R("1", <<"G">>, <<"/", "m", "/">>, <<"s">>, DefaultPort),
                          <<"i", "-">> >>)

\* the responses parsed: every sequence of up to MaxLines of the lines
\* above, with and without the newline after the last line, and the menus
\* of the scenarios
ParseInputs ==
  LET texts == UNION {[1..n -> RawLines] : n \in 0..MaxLines}
  IN  {Response(t) : t \in texts}
        \cup {Pop(Response(t)) : t \in texts \ {<<>>}}
        \cup {SimpleMenuRaw}
        \cup {Scenarios[k].raw : k \in DOMAIN Scenarios}

\* a response has arrived and no menu is made of it yet
InitParse ==
  /\ scn = 0
  /\ raw \in ParseInputs
  /\ lines = <<>>
  /\ links = <<>>
  /\ input = <<>>
  /\ link = 0
  /\ scroll = 0
  /\ size = <<0, 0>>
  /\ wide = FALSE
  /\ key = ""
  /\ action = None
  /\ panicked = FALSE
  /\ pages = <<>>
  /\ page = 0
  /\ dirty = TRUE
  /\ running = TRUE
  /\ pc = "fetched"
  /\ opened = 0
  /\ uiKey = ""
  /\ uiView = None
  /\ uiAction = None
  /\ before = <<<<>>, 0, TRUE>>
  /\ rendered = FALSE
  /\ response = "None"
  /\ ArgsIdle
  /\ MainIdle

\* Menu::parse
MenuParse ==
  /\ pc = "fetched"
  /\ lines' = ParseLines(raw)
  /\ links' = ParseLinks(lines')
  /\ input' = <<>>
  /\ link' = 0
  /\ scroll' = 0
  /\ size' = <<0, 0>>
  /\ wide' = FALSE
  /\ pc' = "parsed"
  /\ UNCHANGED <<scn, raw, key, action, panicked>>
  /\ UNCHANGED <<pages, page, dirty, running, opened, uiKey, uiView, uiAction, before, rendered, response>>
  /\ UNCHANGED <<argVars, mainVars>>

NextParse == MenuParse

SpecParse == InitParse /\ [][NextParse]_vars

\* ------------------------------------------------------------------------
\* args::parse on the argument lists a user may give
\* ------------------------------------------------------------------------
MaxArgs == 3

\* the arguments lists are made of
ArgWords ==
  {"--help", "--raw", "--no-config", "--config", "--tls", "-S", "--no-tls",
   "--tor", "--no-tor", "sdf.org", "-z"}

\* the arguments that start with '-'
DashWords ==
  {"-v", "--version", "-version", "-h", "--help", "-help", "-r", "--raw", "-raw",
   "-p", "--print", "-print", "-l", "--local", "-local",
   "-C", "--no-config", "-no-config", "-c", "--config", "-config",
   "-s", "--tls", "-tls", "-S", "--no-tls", "-no-tls",
   "-o", "--tor", "-tor", "-O", "--no-tor", "-no-tor", "-z"}

ArgLists == UNION {[1..n -> ArgWords] : n \in 0..MaxArgs}

\* args::parse is called with a list of arguments
InitArgs ==
  /\ scn = 0
  /\ raw = <<>>
  /\ lines = <<>>
  /\ links = <<>>
  /\ input = <<>>
  /\ link = 0
  /\ scroll = 0
  /\ size = <<0, 0>>
  /\ wide = FALSE
  /\ key = ""
  /\ action = None
  /\ panicked = FALSE
  /\ UINew
  /\ args \in ArgLists
  /\ iter = 0
  /\ cfg = DefaultConfig
  /\ set = NoFlags
  /\ got_url = FALSE
  /\ argpc = "load"
  /\ ret = ""
  /\ MainIdle

\* a flag that is given leaves no trace
SetFlagForgets(s, name) == s

\* set_tls = true and the like: the flag name has been given
SetFlag(s, name) == [s EXCEPT ![name] = TRUE]

\* return Ok(cfg) or Err(ArgError::new(r))
Return(r) == argpc' = "returned" /\ ret' = r

\* the loop goes on to the next argument
GoOn == argpc' = "loop" /\ ret' = ret

\* the check of tor against tls is left out
ArgFinishNoCheck ==
  /\ argpc = "loop"
  /\ iter >= Len(args)
  /\ \E tty \in BOOLEAN :
       cfg' = IF ~tty THEN [cfg EXCEPT !.mode = "NoTTY"] ELSE cfg
  /\ Return("Ok")
  /\ UNCHANGED <<args, iter, set, got_url>>
  /\ UNCHANGED <<menuVars, uiVars, mainVars>>

\* the configuration parse starts from: config::load() when a config file
\* exists, else config::default()
ArgLoadConfig ==
  /\ argpc = "load"
  /\ \E exists \in BOOLEAN, loaded \in Loads :
       IF exists
       THEN IF ~loaded.ok
            THEN Return("config error") /\ cfg' = cfg
            ELSE GoOn /\ cfg' = loaded.config
       ELSE GoOn /\ cfg' = DefaultConfig
  /\ UNCHANGED <<args, iter, set, got_url>>
  /\ UNCHANGED <<menuVars, uiVars, mainVars>>

\* one turn of the while loop: the next argument is taken and matched
ArgStep ==
  /\ argpc = "loop"
  /\ iter < Len(args)
  /\ LET arg == args[iter + 1] IN
       CASE arg \in {"-v", "--version", "-version"} ->
              /\ cfg' = [cfg EXCEPT !.mode = "Version"]
              /\ Return("Ok")
              /\ iter' = iter + 1
              /\ UNCHANGED <<set, got_url>>
         [] arg \in {"-h", "--help", "-help"} ->
              /\ cfg' = [cfg EXCEPT !.mode = "Help"]
              /\ Return("Ok")
              /\ iter' = iter + 1
              /\ UNCHANGED <<set, got_url>>
         [] arg \in {"-r", "--raw", "-raw"} ->
              /\ IF Len(args) > 1
                 THEN cfg' = [cfg EXCEPT !.mode = "Raw"] /\ GoOn
                 ELSE cfg' = cfg /\ Return("--raw needs gopher-url")
              /\ iter' = iter + 1
              /\ UNCHANGED <<set, got_url>>
         [] arg \in {"-p", "--print", "-print"} ->
              /\ cfg' = [cfg EXCEPT !.mode = "Print"]
              /\ GoOn
              /\ iter' = iter + 1
              /\ UNCHANGED <<set, got_url>>
         [] arg \in {"-l", "--local", "-local"} ->
              /\ cfg' = [cfg EXCEPT !.start = "gopher://127.0.0.1:7070"]
              /\ GoOn
              /\ iter' = iter + 1
              /\ UNCHANGED <<set, got_url>>
         [] arg \in {"-C", "--no-config", "-no-config"} ->
              /\ IF set.set_cfg
                 THEN Return("can't mix --config and --no-config") /\ UNCHANGED <<cfg, set>>
                 ELSE /\ set' = SetFlag(set, "set_nocfg")
                      /\ cfg' = DefaultConfig
                      /\ GoOn
              /\ iter' = iter + 1
              /\ UNCHANGED got_url
         [] arg \in {"-c", "--config", "-config"} ->
              /\ IF set.set_nocfg
                 THEN /\ Return("can't mix --config and --no-config")
                      /\ iter' = iter + 1
                      /\ UNCHANGED <<cfg, set>>
                 ELSE /\ set' = SetFlag(set, "set_cfg")
                      /\ IF iter + 1 < Len(args)
                         THEN /\ iter' = iter + 2
                              /\ \E loaded \in Loads :
                                   IF ~loaded.ok
                                   THEN Return("error loading config: E") /\ cfg' = cfg
                                   ELSE GoOn /\ cfg' = loaded.config
                         ELSE /\ iter' = iter + 1
                              /\ Return("need a config file")
                              /\ cfg' = cfg
              /\ UNCHANGED got_url
         [] arg \in {"-s", "--tls", "-tls"} ->
              /\ IF set.set_notls
                 THEN Return("can't set both --tls and --no-tls") /\ UNCHANGED <<cfg, set>>
                 ELSE /\ set' = SetFlag(set, "set_tls")
                      /\ cfg' = [cfg EXCEPT !.tls = TRUE]
                      /\ \E disable_tls \in BOOLEAN :
                           IF disable_tls
                           THEN Return("phetch was compiled without TLS support")
                           ELSE GoOn
              /\ iter' = iter + 1
              /\ UNCHANGED got_url
         [] arg \in {"-S", "--no-tls", "-no-tls"} ->
              /\ IF set.set_tls
                 THEN Return("can't set both --tls and --no-tls") /\ UNCHANGED <<cfg, set>>
                 ELSE /\ set' = SetFlag(set, "set_notls")
                      /\ cfg' = [cfg EXCEPT !.tls = FALSE]
                      /\ GoOn
              /\ iter' = iter + 1
              /\ UNCHANGED got_url
         [] arg \in {"-o", "--tor", "-tor"} ->
              /\ IF set.set_notor
                 THEN Return("can't set both --tor and --no-tor") /\ UNCHANGED <<cfg, set>>
                 ELSE /\ set' = SetFlag(set, "set_tor")
                      /\ cfg' = [cfg EXCEPT !.tor = TRUE]
                      /\ GoOn
              /\ iter' = iter + 1
              /\ UNCHANGED got_url
         [] arg \in {"-O", "--no-tor", "-no-tor"} ->
              /\ IF set.set_tor
                 THEN Return("can't set both --tor and --no-tor") /\ UNCHANGED <<cfg, set>>
                 ELSE /\ set' = SetFlag(set, "set_notor")
                      /\ cfg' = [cfg EXCEPT !.tor = FALSE]
                      /\ GoOn
              /\ iter' = iter + 1
              /\ UNCHANGED got_url
         [] OTHER ->
              /\ IF arg \in DashWords
                 THEN Return("unknown flag: " \o arg) /\ UNCHANGED <<cfg, got_url>>
                 ELSE IF got_url
                      THEN Return("unknown argument: " \o arg) /\ UNCHANGED <<cfg, got_url>>
                      ELSE /\ got_url' = TRUE
                           /\ cfg' = [cfg EXCEPT !.start = arg]
                           /\ GoOn
              /\ iter' = iter + 1
              /\ UNCHANGED set
  /\ UNCHANGED args
  /\ UNCHANGED <<menuVars, uiVars, mainVars>>

\* after the loop: tor and tls exclude each other, and without a terminal
\* on stdout the mode is NoTTY
ArgFinish ==
  /\ argpc = "loop"
  /\ iter >= Len(args)
  /\ IF cfg.tor /\ cfg.tls
     THEN Return("can't set both --tor and --tls") /\ cfg' = cfg
     ELSE /\ \E tty \in BOOLEAN :
               cfg' = IF ~tty THEN [cfg EXCEPT !.mode = "NoTTY"] ELSE cfg
          /\ Return("Ok")
  /\ UNCHANGED <<args, iter, set, got_url>>
  /\ UNCHANGED <<menuVars, uiVars, mainVars>>

NextArgs ==
  \/ ArgLoadConfig
  \/ ArgStep
  \/ ArgFinish

SpecArgs == InitArgs /\ [][NextArgs]_vars

\* ------------------------------------------------------------------------
\* Properties of the menu
\* ------------------------------------------------------------------------
\* the line of link i is in the window [sc, sc + rows - 2]
InWindow(i, sc) ==
  /\ i < Len(links)
  /\ sc <= Get(links, i)
  /\ Get(links, i) <= sc + Rows - 2

\* C1: after any sequence of keys the selected link is a valid index into
\* links, or links is empty and link is 0.
LinkIsValidIndex ==
  \/ link < Len(links)
  \/ links = <<>> /\ link = 0

\* a Page Up has moved the selection onto the last link of a menu
PageUpSelectedLastLink ==
  /\ key = "PageUp"
  /\ action = Redraw
  /\ link > 0
  /\ link = Len(links) - 1

\* C2: after any sequence of keys scroll is at most the number of lines.
ScrollWithinLines == scroll <= Len(lines)

\* C3: select_link(i) with a valid i ends with link = i, returns Redraw and
\* leaves the line of link i inside the window; with an invalid i it returns
\* None and changes nothing.  Stated of every index, in every state in which
\* a key can reach the menu and the window has at least one line (rows >= 2).
SelectLinkLeavesLinkVisible ==
  (CanKey /\ Rows >= 2) =>
    \A i \in 0..(Len(links) + 1) :
      LET o == ActionSelectLink(Fields, i)
      IN  IF i < Len(links)
          THEN o.m.link = i /\ o.act = Redraw /\ InWindow(i, o.m.scroll)
          ELSE o.act = None /\ o.m = Fields

\* C4 as claimed: after a single-step Up or Down on a menu with links the
\* selected link's line is inside the window.  Stated for windows of at least
\* one line (rows >= 2) and for keys pressed while the selected link is
\* inside the window, so that no other key's effect is needed to refute it.
SelectedVisibleAfterUpDown ==
  [][(key' \in {"Up", "Down"} /\ ~panicked' /\ links # <<>> /\ Rows >= 2
        /\ InWindow(link, scroll) /\ (KeyUp \/ KeyDown))
      => InWindow(link', scroll')]_vars

\* C4 as amended: an Up or Down that changes the selection, on a terminal
\* whose window has at least one line (rows >= 2), leaves the newly selected
\* link's line inside the window.
NewSelectionVisibleAfterUpDown ==
  [][(key' \in {"Up", "Down"} /\ link' # link /\ Rows >= 2 /\ (KeyUp \/ KeyDown))
      => InWindow(link', scroll')]_vars

\* an Up has selected the link above, which is now the first line of a
\* scrolled window
UpSelectedLinkAtWindowTop ==
  /\ key = "Up"
  /\ action = Redraw
  /\ Rows >= 2
  /\ link < Len(links) - 1
  /\ scroll > 0
  /\ scroll = Get(links, link)

\* the links whose line is inside the window at scroll sc
VisibleLinks(sc) == {k \in 0..(Len(links) - 1) : InWindow(k, sc)}

\* C5: after a Page Down or Page Up that moves scroll, if the previously
\* selected link is outside the new window and some link is inside it, the
\* selected link is inside it: the nearest one forward of the old selection
\* for Page Down, the nearest one backward of it for Page Up (stated for
\* windows of at least one line, rows >= 2).
PageReselectsNearestVisible ==
  [][(/\ key' \in {"PageDown", "PageUp"}
      /\ ~panicked'
      /\ Rows >= 2
      /\ scroll' # scroll
      /\ ~InWindow(link, scroll')
      /\ VisibleLinks(scroll') # {}
      /\ (KeyPageDown \/ KeyPageUp))
      => /\ link' \in VisibleLinks(scroll')
         /\ KeyPageDown =>
              \A k \in VisibleLinks(scroll') : k >= link => link' <= k
         /\ KeyPageUp =>
              \A k \in VisibleLinks(scroll') : k <= link => link' >= k]_vars

\* C6: a Page Up or Page Down that moves scroll moves it by 15 lines or to
\* the edge, and on a menu of more than 15 lines leaves it in
\* [0, len(lines) - 15].
PageScrollClamped ==
  [][(key' \in {"PageDown", "PageUp"} /\ scroll' # scroll
        /\ Len(lines) > SCROLL_LINES /\ (KeyPageDown \/ KeyPageUp))
      => /\ 0 <= scroll'
         /\ scroll' <= Len(lines) - SCROLL_LINES]_vars

\* the number a buffer of digits reads as; -1 for any other buffer
DecimalNumber(buf) ==
  IF buf # <<>> /\ \A k \in 1..Len(buf) : IsDigit(buf[k])
  THEN DigitsValue(buf)
  ELSE -1

\* a digit key has made the buffer one to three digits that read as a valid
\* link number
DigitKeyCompletes ==
  /\ IsDigit(key')
  /\ size' = size
  /\ ~panicked'
  /\ Len(input) < 3
  /\ DecimalNumber(Append(input, key')) \in 1..Len(links)
  /\ KeyChar

\* the URL of link number n
UrlOfLink(n) == Get(lines, Get(links, n - 1)).url

\* what following link number n may return: Open of its URL; for a URL of
\* Search type, Open of the URL with the prompt's query, or None
FollowResults(n) ==
  IF UrlType(Get(lines, Get(links, n - 1))) = "Search"
  THEN {Open(UrlOfLink(n) \o <<"?">> \o q) : q \in Queries} \cup {None}
  ELSE {Open(UrlOfLink(n))}

\* C7 as claimed: such a key follows link n at once when len(links) < n * 10
\* (link = n - 1, buffer cleared, result Open of the link's URL) and
\* otherwise only selects it (link = n - 1, result Redraw, buffer kept).
DigitFollowsWithLinkUrl ==
  [][DigitKeyCompletes =>
       LET n == DecimalNumber(Append(input, key'))
       IN  IF Len(links) < n * 10
           THEN link' = n - 1 /\ input' = <<>> /\ action' = Open(UrlOfLink(n))
           ELSE link' = n - 1 /\ input' = Append(input, key') /\ action' = Redraw]_vars

\* C7 as amended: the same, the result of following being what Enter gives
\* on link n: Open of its URL, or for a URL of Search type Open of the URL
\* with the query the prompt gives, or None when the prompt gives none.
DigitFollowsOrSelects ==
  [][DigitKeyCompletes =>
       LET n == DecimalNumber(Append(input, key'))
       IN  IF Len(links) < n * 10
           THEN link' = n - 1 /\ input' = <<>> /\ action' \in FollowResults(n)
           ELSE link' = n - 1 /\ input' = Append(input, key') /\ action' = Redraw]_vars

\* the third digit of "015" has opened link 15 of a menu of 15 links
ThirdDigitOpenedLink ==
  /\ Len(links) = 15
  /\ key = "5"
  /\ link = 14
  /\ input = <<>>
  /\ action = Open(UrlOfLink(15))

\* the first link, in link order, whose lowercased name contains the
\* lowercased buffer buf; -1 if none
FirstNameMatch(buf) ==
  LET hits == {i \in 0..(Len(links) - 1) :
                 Contains(ToAsciiLowercase(Get(lines, Get(links, i)).name),
                          ToAsciiLowercase(buf))}
  IN  IF hits = {} THEN -1 ELSE CHOOSE i \in hits : \A j \in hits : i <= j

\* C8: with exactly 9 links the first digit d in 1..9 opens link d at once;
\* with 15 links '1' only selects link 1 and stays in the buffer, a second
\* digit completing 10..15 opens that link, and a second digit completing a
\* number above 15 opens nothing and searches the link names for the two
\* characters.
DigitSequences ==
  [][(IsDigit(key') /\ size' = size /\ ~panicked' /\ Len(links) \in {9, 15}
        /\ Len(input) < 2 /\ KeyChar) =>
       LET d   == ToDigit(key')
           buf == Append(input, key')
       IN  /\ (Len(links) = 9 /\ input = <<>> /\ d >= 1) =>
                link' = d - 1 /\ input' = <<>> /\ action' \in FollowResults(d)
           /\ (Len(links) = 15 /\ input = <<>> /\ d = 1) =>
                link' = 0 /\ input' = <<"1">> /\ action' = Redraw
           /\ (Len(links) = 15 /\ input = <<"1">> /\ 10 + d <= 15) =>
                link' = 9 + d /\ input' = <<>> /\ action' \in FollowResults(10 + d)
           /\ (Len(links) = 15 /\ input = <<"1">> /\ 10 + d > 15) =>
                /\ action'.kind # "Open"
                /\ input' = buf
                /\ IF FirstNameMatch(buf) >= 0
                   THEN link' = FirstNameMatch(buf) /\ action' = Redraw
                   ELSE link' = link /\ scroll' = scroll /\ action' = None]_vars

\* "1" then "9" on the menu of 15 links: nothing opened, the link named
\* "n19" found by the search
SecondDigitFellBackToSearch ==
  /\ Len(links) = 15
  /\ key = "9"
  /\ input = <<"1", "9">>
  /\ action = Redraw
  /\ link = 3

\* C9: Backspace on an empty buffer returns Back and changes no field of the
\* menu; on a non-empty buffer it removes the last character, does not
\* return Back and leaves link and scroll alone.
BackspaceErasesThenGoesBack ==
  [][(key' = "Backspace" /\ size' = size /\ KeyBackspace) =>
       IF input = <<>>
       THEN /\ action' = Back
            /\ UNCHANGED <<lines, links, input, link, scroll, size, wide>>
       ELSE /\ input' = SubSeq(input, 1, Len(input) - 1)
            /\ action' # Back
            /\ UNCHANGED <<link, scroll>>]_vars

\* Backspace has erased one character of a longer buffer
BackspaceErasedOne ==
  /\ key = "Backspace"
  /\ action = None
  /\ Len(input) = 1

\* ------------------------------------------------------------------------
\* Properties of the session
\* ------------------------------------------------------------------------
\* an open that added its page
OpenSucceeds == opened' = opened + 1 /\ (UIStart \/ UIOpen)

\* C10: an open keeps pages 0..p, drops every page after p, appends the new
\* page at p + 1 and makes it current; after any successful open the current
\* index is the last one, and the very first open leaves it at 0.
OpenTruncatesThenAppends ==
  [][OpenSucceeds =>
       /\ page' = Len(pages') - 1
       /\ pages'[Len(pages')][2] = opened'
       /\ IF pages = <<>>
          THEN page' = 0 /\ Len(pages') = 1
          ELSE /\ page' = page + 1
               /\ SubSeq(pages', 1, page + 1) = SubSeq(pages, 1, page + 1)
               /\ Len(pages') = page + 2]_vars

\* a page was opened from a history position that was not the last
OpenedFromMiddle ==
  /\ uiAction.kind = "Open"
  /\ pc \in {"draw", "update"}
  /\ before[2] < Len(before[1]) - 1
  /\ Len(pages) = before[2] + 2
  /\ page = before[2] + 1
  /\ pages[Len(pages)][2] = opened

\* ------------------------------------------------------------------------
\* Properties of the history
\* ------------------------------------------------------------------------
\* the session handles a key that process_page_input made action kind of
Handles(kind) == pc = "update" /\ uiAction'.kind = kind

\* The last page of the history is the one opened last, and it was opened
\* from a position that was not the last: pages opened between it and the
\* page before it are gone from the history.
FreshFromMiddle ==
  /\ Len(pages) >= 2
  /\ pages[Len(pages)][2] = opened
  /\ pages[Len(pages) - 1][2] < opened - 1

\* C11: when the page opened last was opened from a position that was not
\* the last, a Back from it followed at once by a Forward makes it current
\* again; no step puts a page into the history except a fresh one at its
\* end, so a discarded page never returns, and Back and Forward leave the
\* history as it is and the current index inside it.
BackForwardReturnsToFreshPage ==
  [][/\ (/\ Handles("Forward")
         /\ uiAction = Back
         /\ FreshFromMiddle
         /\ before[1] = pages
         /\ before[2] = Len(pages) - 1)
        => /\ pages' = pages
           /\ page' = Len(pages) - 1
           /\ pages'[page' + 1][2] = opened
     /\ \A i \in 1..Len(pages') :
          \/ i <= Len(pages) /\ pages'[i] = pages[i]
          \/ i = Len(pages') /\ pages'[i][2] = opened + 1 /\ opened' = opened + 1
     /\ (Handles("Back") \/ Handles("Forward"))
        => pages' = pages /\ page' < Len(pages')]_vars

\* Forward has just returned to the fresh page that replaced discarded ones
ForwardReturnedToFreshPage ==
  /\ uiAction = Forward
  /\ FreshFromMiddle
  /\ before = <<pages, Len(pages) - 2, FALSE>>
  /\ page = Len(pages) - 1

\* C12: with a page in the history the current index is below len(pages);
\* Back moves the index by -1 and Forward by +1, and Back at index 0 or
\* Forward at the last index changes neither index, pages nor dirty.
BackForwardMoveByOneWithinHistory ==
  [][/\ pages' # <<>> => page' < Len(pages')
     /\ Handles("Back") =>
          IF page > 0
          THEN page' = page - 1 /\ pages' = pages
          ELSE page' = page /\ pages' = pages /\ dirty' = dirty
     /\ Handles("Forward") =>
          IF page < Len(pages) - 1
          THEN page' = page + 1 /\ pages' = pages
          ELSE page' = page /\ pages' = pages /\ dirty' = dirty]_vars

\* Forward was pressed on the last of several pages and nothing moved
ForwardAtLastPageDidNothing ==
  /\ uiAction = Forward
  /\ pc = "draw"
  /\ Len(pages) >= 2
  /\ page = Len(pages) - 1
  /\ before = <<pages, page, FALSE>>
  /\ dirty = FALSE

\* C13: the action of a key is the view's answer unless that is Unknown;
\* only then the global bindings give it: Quit for Ctrl-Q and Ctrl-C, Back
\* for Left and Backspace, Forward for Right, Redraw for Enter, Clipboard of
\* the current page's URL for Ctrl-Y, and for any other key nothing happens
\* and the next key is read.  The session acts on that action.
ViewFirstThenGlobalBindings ==
  [][pc = "update" =>
       /\ uiView' # Unknown => uiAction' = uiView'
       /\ uiView' = Unknown =>
            /\ uiKey' \in {"CtrlQ", "CtrlC"}    => uiAction' = Quit
            /\ uiKey' \in {"Left", "Backspace"} => uiAction' = Back
            /\ uiKey' = "Right"                 => uiAction' = Forward
            /\ uiKey' = "Enter"                 => uiAction' = Redraw
            /\ uiKey' = "CtrlY"                 => uiAction' = Clipboard(pages[page + 1][1])
            /\ uiKey' \notin {"CtrlQ", "CtrlC", "Left", "Backspace", "Right", "Enter", "CtrlY"}
                 => /\ uiAction' = Unknown
                    /\ pc' = "update"
                    /\ UNCHANGED <<pages, page, dirty, running>>
       /\ uiAction' = Quit => running' = FALSE /\ pc' = "done"
       /\ uiAction' = Redraw => dirty' = TRUE
       /\ uiAction' = Back /\ page > 0 => page' = page - 1
       /\ uiAction' = Forward /\ page < Len(pages) - 1 => page' = page + 1
       /\ uiAction'.kind = "Open" /\ pc' = "draw" => pages'[page' + 1][1] = uiAction'.arg
       /\ uiAction'.kind \in {"None", "Clipboard"} => UNCHANGED <<pages, page, dirty, running>>]_vars

\* the view answered Ctrl-Q itself and the session did not quit
ViewOverrodeGlobalBinding ==
  /\ uiKey = "CtrlQ"
  /\ uiView = Redraw
  /\ uiAction = Redraw
  /\ running
  /\ dirty
  /\ pc = "draw"

\* C14: dirty becomes true on Redraw, on an Open and on a Back or Forward
\* that moves the index, and stays as it is on None and Clipboard; every
\* draw prints the page exactly when dirty is true and leaves dirty false,
\* so dirty is false whenever the session waits for a key.
DirtySetAndConsumedOncePerIteration ==
  [][/\ Handles("Redraw") => dirty'
     /\ Handles("Open") => dirty'
     /\ Handles("Back") => dirty' = (dirty \/ page' # page)
     /\ Handles("Forward") => dirty' = (dirty \/ page' # page)
     /\ (Handles("None") \/ Handles("Clipboard")) => ~dirty' /\ rendered' = rendered
     /\ pc = "draw" => rendered' = dirty /\ ~dirty' /\ pc' = "update"
     /\ pc # "draw" => rendered' = rendered
     /\ pc' = "update" => ~dirty']_vars

\* the key before gave Clipboard and the draw after it printed nothing
NoRenderAfterClipboard ==
  /\ uiAction.kind = "Clipboard"
  /\ pc = "update"
  /\ ~rendered
  /\ ~dirty

\* ------------------------------------------------------------------------
\* Properties of parse
\* ------------------------------------------------------------------------
\* the number of lines among the first i that are not Info lines
LinksUpTo(i) == Cardinality({k \in 1..i : lines[k].typ # "Info"})

\* C15: in every parsed menu each Info line has link number 0 and each
\* other line the count of non-Info lines up to and including it, so these
\* carry 1, 2, ..., k in order; links[j] is the index of the line numbered
\* j + 1 and len(links) is the number of non-Info lines; the menu of
\* test_simple_menu has 4 lines and 2 links.
LinkNumbersContiguous ==
  pc = "parsed" =>
    /\ \A i \in 1..Len(lines) :
         lines[i].link = IF lines[i].typ = "Info" THEN 0 ELSE LinksUpTo(i)
    /\ Len(links) = LinksUpTo(Len(lines))
    /\ \A j \in 0..(Len(links) - 1) :
         /\ Get(links, j) < Len(lines)
         /\ Get(lines, Get(links, j)).link = j + 1
    /\ raw = SimpleMenuRaw => Len(lines) = 4 /\ Len(links) = 2

\* the menu of test_simple_menu is parsed: two links between two Info lines
SimpleMenuParsed ==
  /\ pc = "parsed"
  /\ raw = SimpleMenuRaw
  /\ links = <<1, 2>>
  /\ lines[1].link = 0 /\ lines[2].link = 1 /\ lines[3].link = 2 /\ lines[4].link = 0

\* the lines of the response that parse makes an entry of, in order: line k
\* of the menu comes from the k-th of them
IsItemLine(line) == line # <<>> /\ line[1] \in {"i", "0", "1", "3", "7", "h"}

ItemLines == SelectSeq(SplitTerminator(raw, "\n"), IsItemLine)

\* the tab-separated fields of the k-th such line, and field i of them
\* (empty when the line has no field i)
FieldsOfLine(k) == SplitTerminator(ItemLines[k], "\t")

Field(k, i) == IF Len(FieldsOfLine(k)) >= i THEN FieldsOfLine(k)[i] ELSE <<>>

HasUrlOverride(k) == StartsWith(Field(k, 2), <<"U", "R", "L", ":">>)

\* the host and port part of the URL of line k
HostPort(k) ==
  <<"g", "o", "p", "h", "e", "r", ":", "/", "/">>
    \o Field(k, 3)
    \o (IF Len(FieldsOfLine(k)) >= 4 /\ TrimEndCR(Field(k, 4)) # <<"7", "0">>
        THEN <<":">> \o TrimEndCR(Field(k, 4)) ELSE <<>>)

\* line k has a selector field and it is empty
BlankSelector(k) == Len(FieldsOfLine(k)) >= 2 /\ Field(k, 2) = <<>>

\* C16 as stated: the URL of a line without URL: is 'gopher://' + host,
\* ':' + port when a port field is present and is not '70' after stripping
\* carriage returns, then '/' + type character + selector.
UrlIsHostPortTypeSelector ==
  pc = "parsed" /\ Len(lines) = Len(ItemLines) =>
    \A k \in 1..Len(lines) :
      ~HasUrlOverride(k) =>
        lines[k].url = HostPort(k) \o <<"/", ItemLines[k][1]>> \o Field(k, 2)

\* C16: the URL of a line without URL: is 'gopher://' + host, ':' + port
\* when a port field is present and is not '70' after stripping carriage
\* returns, then '/' + type character, a further '/' when the selector field
\* is present and empty, then the selector.
UrlIsHostPortTypeSlashSelector ==
  pc = "parsed" /\ Len(lines) = Len(ItemLines) =>
    \A k \in 1..Len(lines) :
      ~HasUrlOverride(k) =>
        lines[k].url = HostPort(k) \o <<"/", ItemLines[k][1]>>
                         \o (IF BlankSelector(k) THEN <<"/">> ELSE <<>>)
                         \o Field(k, 2)

\* a line with port 71 and a carriage return and a line with port 70 and a
\* carriage return are parsed
PortsWithCarriageReturnParsed ==
  /\ pc = "parsed"
  /\ raw = Response(<< R("0", <<"B">>, <<"t">>, <<"h">>, <<"7", "1", "\r">>),
                       R("1", <<"A">>, <<"s">>, <<"h">>, <<"7", "0", "\r">>) >>)
  /\ lines[1].url = <<"g", "o", "p", "h", "e", "r", ":", "/", "/", "h", ":", "7", "1", "/", "0", "t">>
  /\ lines[2].url = <<"g", "o", "p", "h", "e", "r", ":", "/", "/", "h", "/", "1", "s">>

\* the last n characters of s
Suffix(s, n) == IF Len(s) >= n THEN SubSeq(s, Len(s) - n + 1, Len(s)) ELSE <<>>

UrlOverrideTakenVerbatim ==
  pc = "parsed" /\ Len(lines) = Len(ItemLines) =>
    \A k \in 1..Len(lines) :
      HasUrlOverride(k) =>
        /\ lines[k].url = SubSeq(Field(k, 2), 5, Len(Field(k, 2)))
        /\ lines[k].name = Tail(Field(k, 1))
        /\ lines[k].typ = TypeForChar(ItemLines[k][1])
        /\ lines[k].link = IF lines[k].typ = "Info" THEN 0 ELSE LinksUpTo(k)

\* an HTML line with URL:w and port 71 is parsed after another link
UrlOverrideLineParsed ==
  /\ pc = "parsed"
  /\ raw = Response(<< R("1", <<"A">>, <<"s">>, <<"h">>, <<"7", "0">>),
                       R("h", <<"W">>, <<"U", "R", "L", ":", "w">>, <<"h">>, <<"7", "1">>) >>)
  /\ Len(lines) = 2
  /\ lines[2] = [name |-> <<"W">>, url |-> <<"w">>, typ |-> "HTML", link |-> 2]

\* the response without its empty lines and its lines of unknown type
ItemLinesOnly == Response(ItemLines)

\* C19: parse makes a menu of every response: an empty line or a line of
\* unknown type adds nothing to lines or links and leaves the numbers of
\* later lines as they are without it, and every other line, of one field
\* or more, gives exactly one entry.
UnknownLinesDroppedOthersKept ==
  pc = "parsed" =>
    /\ ~panicked
    /\ Len(lines) = Len(ItemLines)
    /\ lines = ParseLines(ItemLinesOnly)
    /\ links = ParseLinks(ParseLines(ItemLinesOnly))
    /\ \A k \in 1..Len(lines) :
         Len(FieldsOfLine(k)) < 2 =>
           /\ lines[k].name = Tail(Field(k, 1))
           /\ lines[k].typ = TypeForChar(ItemLines[k][1])

\* a line of unknown type, then a line of the type character alone
UnknownLineDroppedShortLineKept ==
  /\ pc = "parsed"
  /\ raw = Response(<< <<"?", "z">>, <<"1">> >>)
  /\ Len(lines) = 1
  /\ links = <<0>>
  /\ lines[1].link = 1
  /\ lines[1].name = <<>>

\* ------------------------------------------------------------------------
\* Properties of open
\* ------------------------------------------------------------------------
\* C20: a fetch that fails leaves the history and the current index as they
\* were and ends the process, and an ended process takes no further step:
\* no key is read and nothing is drawn after it.
FailedFetchEndsSession ==
  [][/\ response' = "Err" => pages' = pages /\ page' = page /\ pc' = "exit"
     /\ pc # "exit"]_vars

\* the fetch for an Open from the second page failed and the process ended
FetchFailedOnLaterOpen ==
  /\ pc = "exit"
  /\ response = "Err"
  /\ uiAction.kind = "Open"
  /\ Len(pages) = 2
  /\ page = 1
  /\ before = <<pages, page, FALSE>>

\* ------------------------------------------------------------------------
\* Properties of args::parse
\* ------------------------------------------------------------------------
\* the opposing pairs of flags, each with the names of its two members and
\* the error of the pair
OpposingPairs ==
  { [a |-> {"-s", "--tls", "-tls"}, b |-> {"-S", "--no-tls", "-no-tls"},
     msg |-> "can't set both --tls and --no-tls"],
    [a |-> {"-o", "--tor", "-tor"}, b |-> {"-O", "--no-tor", "-no-tor"},
     msg |-> "can't set both --tor and --no-tor"],
    [a |-> {"-c", "--config", "-config"}, b |-> {"-C", "--no-config", "-no-config"},
     msg |-> "can't mix --config and --no-config"] }

\* the argument list has an argument of these names
Has(names) == \E i \in 1..Len(args) : args[i] \in names

\* argument j is the file name that follows a --config
RECURSIVE FileAt(_)
FileAt(j) == j > 1 /\ ~FileAt(j - 1) /\ args[j - 1] \in {"-c", "--config", "-config"}

\* the loop has taken an argument of these names as a flag
Handled(names) == \E j \in 1..iter : args[j] \in names /\ ~FileAt(j)

\* C21 as stated: an argument list that has both members of an opposing
\* pair, in either order, is rejected: parse does not return a configuration.
OpposingPairAlwaysRejected ==
  argpc = "returned" /\ (\E p \in OpposingPairs : Has(p.a) /\ Has(p.b)) => ret # "Ok"

\* C21: when the loop comes to a member of an opposing pair and has taken
\* the other member as a flag before, parse returns the error of the pair
\* at this argument.
SecondOfPairRejectedWhenReached ==
  [][argpc = "loop" /\ iter < Len(args) =>
       \A p \in OpposingPairs :
         \/ args[iter + 1] \in p.a /\ Handled(p.b)
         \/ args[iter + 1] \in p.b /\ Handled(p.a)
         => argpc' = "returned" /\ ret' = p.msg /\ iter' = iter + 1]_vars

\* --tls, a URL, then -S: rejected at the third argument
NoTlsAfterTlsRejected ==
  /\ argpc = "returned"
  /\ args = <<"--tls", "sdf.org", "-S">>
  /\ iter = 3
  /\ ret = "can't set both --tls and --no-tls"

\* C22 as stated: parse never returns a configuration that has both tor and
\* tls enabled.
TorWithTlsNeverReturned ==
  argpc = "returned" /\ cfg.tor /\ cfg.tls => ret # "Ok"

\* C22: when the loop has taken every argument and tor and tls are both
\* enabled, parse returns "can't set both --tor and --tls"; a configuration
\* returned with both enabled is one that --version or --help returned
\* before the end of the list; --tor with --no-tls is accepted with tor on
\* and tls off.
TorWithTlsRejectedAfterLoop ==
  [][argpc = "loop" /\ argpc' = "returned" =>
       /\ iter >= Len(args) /\ cfg.tor /\ cfg.tls
            => ret' = "can't set both --tor and --tls"
       /\ ret' = "Ok" /\ cfg'.tor /\ cfg'.tls
            => /\ iter < Len(args)
               /\ args[iter + 1] \in {"-v", "--version", "-version", "-h", "--help", "-help"}
       /\ args = <<"--tor", "--no-tls">>
            => ret' = "Ok" /\ cfg'.tor /\ ~cfg'.tls]_vars

\* --tls then --tor: rejected after the loop
TlsThenTorRejected ==
  /\ argpc = "returned"
  /\ args = <<"--tls", "--tor">>
  /\ iter = 2
  /\ cfg.tls /\ cfg.tor
  /\ ret = "can't set both --tor and --tls"

\* the argument list has a URL: an argument that is no flag and no file name
UrlGiven == \E i \in 1..Len(args) : args[i] \notin DashWords /\ ~FileAt(i)

\* C23: a configuration of mode Raw is returned only for a list with a URL
\* argument, and that URL is its start address.
RawOnlyWithUrl ==
  argpc = "returned" /\ ret = "Ok" /\ cfg.mode = "Raw" =>
    /\ UrlGiven
    /\ \E i \in 1..Len(args) : args[i] \notin DashWords /\ cfg.start = args[i]

\* ------------------------------------------------------------------------
\* More properties of the menu
\* ------------------------------------------------------------------------
\* C24: Up with the first link selected keeps link = 0 and the buffer; with
\* scroll > 0 it takes one from scroll and returns Redraw, with scroll = 0
\* it changes nothing and returns None.
UpAtFirstLinkOnlyScrolls ==
  [][(key' = "Up" /\ size' = size /\ link = 0 /\ KeyUp) =>
       /\ link' = 0
       /\ input' = input
       /\ IF scroll > 0
          THEN scroll' = scroll - 1 /\ action' = Redraw
          ELSE scroll' = 0 /\ action' = None]_vars

\* Up has scrolled a menu with links past its selected first link
UpScrolledAtFirstLink ==
  /\ key = "Up"
  /\ action = Redraw
  /\ Len(links) > 0
  /\ link = 0
  /\ scroll > Get(links, 0)


\* C25: Esc or Ctrl-C with a buffer that is not empty empties it, leaves
\* link and scroll as they are and never gives Quit; Ctrl-C with an empty
\* buffer gives Quit; Esc with an empty buffer changes nothing and gives no
\* action.
EscAndCtrlCClearBeforeQuit ==
  [][/\ (key' = "Esc" /\ size' = size /\ KeyEsc) =>
          IF input # <<>>
          THEN input' = <<>> /\ link' = link /\ scroll' = scroll /\ action' # Quit
          ELSE /\ UNCHANGED <<input, link, scroll, wide>>
               /\ action' = None
     /\ (key' = "CtrlC" /\ size' = size /\ KeyCtrlC) =>
          IF input # <<>>
          THEN input' = <<>> /\ link' = link /\ scroll' = scroll /\ action' # Quit
          ELSE /\ UNCHANGED <<input, link, scroll, wide>>
               /\ action' = Quit]_vars

\* Ctrl-C has emptied a buffer on a page scrolled down and has not quit
CtrlCClearedBuffer ==
  /\ key = "CtrlC"
  /\ input = <<>>
  /\ action # Quit
  /\ scroll > 0

\* C26: Enter gives Open of the URL of the selected link when that URL is
\* not of Search type; for a Search link it gives Open of the URL, '?' and
\* the query the prompt returned, or None when the prompt returned nothing;
\* with no link under the selection it gives None.  Link and scroll stay in
\* every case.
EnterOpensSelectedLink ==
  [][(key' = "Enter" /\ size' = size /\ KeyEnter) =>
       /\ link' = link
       /\ scroll' = scroll
       /\ IF link < Len(links)
          THEN LET l == Get(lines, Get(links, link))
               IN  IF UrlType(l) = "Search"
                   THEN action' \in {Open(l.url \o <<"?">> \o q) : q \in Queries}
                                       \cup {None}
                   ELSE action' = Open(l.url)
          ELSE action' = None]_vars

\* Enter on a selected Search link has opened its URL with the query
EnterOpenedSearchWithQuery ==
  /\ key = "Enter"
  /\ link < Len(links)
  /\ UrlType(Get(lines, Get(links, link))) = "Search"
  /\ \E q \in Queries : action = Open(UrlOfLink(link + 1) \o <<"?">> \o q)

\* the number the Key::Char(c) arm takes a buffer for: one digit, or two or
\* three characters that are digits after an optional '+'; -1 if none
JumpNumber(buf) ==
  IF Len(buf) = 1 THEN DecimalNumber(buf)
  ELSE IF Len(buf) \in {2, 3}
       THEN DecimalNumber(IF buf[1] = "+" THEN Tail(buf) ELSE buf)
       ELSE -1

RenderWindowIsVisibility ==
  Rows >= 1 =>
    \A sc \in 0..(Len(lines) + 1) : \A n \in RenderTake :
      LET out     == RenderLines(sc, n)
          emitted == {out[k] : k \in 1..Len(out)}
      IN  /\ emitted = {p \in 0..(Len(lines) - 1) : sc <= p /\ p <= sc + Rows - 2}
          /\ \A k \in 1..(Len(out) - 1) : out[k + 1] = out[k] + 1
          /\ \A i \in 0..(Len(links) - 1) :
               LinkVisibility(i, sc) =
                 IF Get(links, i) \in emitted THEN "Visible"
                 ELSE IF Get(links, i) < sc THEN "Above"
                 ELSE "Below"

\* a page scrolled down, with a link above the window, a link on the last
\* line emitted and a link on the line after it, which the input line covers
LinkOnEachSideOfWindow ==
  /\ Rows >= 2
  /\ scroll > 0
  /\ \E n \in RenderTake :
       LET out == RenderLines(scroll, n)
       IN  /\ Len(out) = Rows - 1
           /\ \E i, j, k \in 0..(Len(links) - 1) :
                /\ LinkVisibility(i, scroll) = "Above"
                /\ Get(links, j) = out[Len(out)]
                /\ LinkVisibility(j, scroll) = "Visible"
                /\ Get(links, k) = out[Len(out)] + 1
                /\ LinkVisibility(k, scroll) = "Below"


ZeroHandledWithoutUnderflow ==
  [][(/\ key' = "0"
      /\ size' = size
      /\ JumpNumber(Append(input, "0")) = 0
      /\ KeyChar) =>
       /\ ~panicked'
       /\ link' = link
       /\ scroll' = scroll
       /\ action'.kind # "Open"]_vars


\* ------------------------------------------------------------------------
\* Down on a menu without links
\* ------------------------------------------------------------------------
\* C31: Down on a menu with no links, one with more lines than fit on the
\* screen included, completes without an underflow of len(links) - 1 (the
\* handler does not panic) and leaves link at 0.
DownWithoutLinksCompletes ==
  [][(/\ key' = "Down"
      /\ size' = size
      /\ Len(links) = 0
      /\ KeyDown) =>
       /\ ~panicked'
       /\ link' = 0]_vars


\* ------------------------------------------------------------------------
\* main.rs: the standalone main loop
\* ------------------------------------------------------------------------
MaxMainLinks == 2   \* most links the loaded page may have

\* the keys term_input may read; "EOF" stands for the end of stdin
MainKeys ==
  {"CtrlC", "q", "Enter", "a", "j", "Alt", "Up", "CtrlP", "Down", "CtrlN",
   "CtrlX", "Left", "Right", "Backspace", "Delete", "F1", "EOF"}

\* the keys that are Key::Char(c) of the arm that pushes c
MainChars == {"a", "j"}

\* term_input's match on one key: the Action it returns, or "" when it goes
\* on reading; at the end of stdin the loop ends and it returns None
TermInputKey(k) ==
  CASE k \in {"CtrlC", "q"}    -> "Quit"
    [] k = "Enter"             -> "Open"
    [] k \in {"Up", "CtrlP"}   -> "Up"
    [] k \in {"Down", "CtrlN"} -> "Down"
    [] k = "EOF"               -> "None"
    [] OTHER                   -> ""

\* term_input's local input after a key it goes on reading from
TermInputBuffer(inp, k) ==
  IF k \in MainChars THEN Append(inp, k)
  ELSE IF k \in {"Backspace", "Delete"} /\ inp # <<>> THEN Pop(inp)
  ELSE inp

\* Page::cursor_up
CursorUp(c) == IF c > 0 THEN c - 1 ELSE c

\* Page::cursor_down on a page of n links
CursorDown(c, n) == IF c < n THEN c + 1 ELSE c

\* main before its loop: App::load fetches and parses the start page, which
\* has some number of links, and puts it under App.cursor
MainLoad ==
  /\ mpc = "start"
  /\ mlinks' \in 0..MaxMainLinks
  /\ mcursor' = 0
  /\ mpc' = "render"
  /\ UNCHANGED <<minput, mkey, maction>>
  /\ UNCHANGED <<menuVars, uiVars, argVars>>

\* App::render, first half of an iteration of main's loop
MainRender ==
  /\ mpc = "render"
  /\ mpc' = "respond"
  /\ UNCHANGED <<mlinks, mcursor, minput, mkey, maction>>
  /\ UNCHANGED <<menuVars, uiVars, argVars>>

\* App::respond finds the page (load has put it there) and term_input
\* begins: it panics when the terminal gives no size or no raw mode,
\* otherwise it prints the prompt with an empty input
MainTermInput ==
  /\ mpc = "respond"
  /\ \E terminal \in BOOLEAN : mpc' = IF terminal THEN "keys" ELSE "panic"
  /\ minput' = <<>>
  /\ UNCHANGED <<mlinks, mcursor, mkey, maction>>
  /\ UNCHANGED <<menuVars, uiVars, argVars>>

\* term_input reads a key it does not return on
MainRead ==
  /\ mpc = "keys"
  /\ \E k \in MainKeys :
       /\ TermInputKey(k) = ""
       /\ k \in MainChars => Len(minput) < MaxInput
       /\ mkey' = k
       /\ minput' = TermInputBuffer(minput, k)
  /\ UNCHANGED <<mpc, mlinks, mcursor, maction>>
  /\ UNCHANGED <<menuVars, uiVars, argVars>>

\* term_input reads a key and returns Action a for it
Returns(a) ==
  /\ mpc = "keys"
  /\ \E k \in MainKeys : TermInputKey(k) = a /\ mkey' = k
  /\ maction' = a
  /\ UNCHANGED <<mlinks, minput>>
  /\ UNCHANGED <<menuVars, uiVars, argVars>>

\* App::respond, Action::Up arm
MainUp ==
  /\ Returns("Up")
  /\ mcursor' = CursorUp(mcursor)
  /\ mpc' = "render"

\* App::respond, Action::Down arm
MainDown ==
  /\ Returns("Down")
  /\ mcursor' = CursorDown(mcursor, mlinks)
  /\ mpc' = "render"

\* App::respond, Action::Open arm: with the cursor on a link it prints the
\* link and exits the process
MainOpen ==
  /\ Returns("Open")
  /\ mpc' = IF mcursor > 0 /\ mcursor - 1 < mlinks THEN "exit" ELSE "render"
  /\ UNCHANGED mcursor

\* App::respond, Action::Quit arm: respond returns, into main's loop
MainQuit ==
  /\ Returns("Quit")
  /\ mpc' = "render"
  /\ UNCHANGED mcursor

\* App::respond, the arm of every other Action
MainNone ==
  /\ Returns("None")
  /\ mpc' = "render"
  /\ UNCHANGED mcursor

NextMain ==
  \/ MainLoad
  \/ MainRender
  \/ MainTermInput
  \/ MainRead
  \/ MainUp
  \/ MainDown
  \/ MainOpen
  \/ MainQuit
  \/ MainNone

\* main.rs's main is run, the menu, the session and args::parse at rest
InitMain ==
  /\ scn = 0
  /\ raw = <<>>
  /\ lines = <<>>
  /\ links = <<>>
  /\ input = <<>>
  /\ link = 0
  /\ scroll = 0
  /\ size = <<0, 0>>
  /\ wide = FALSE
  /\ key = ""
  /\ action = None
  /\ panicked = FALSE
  /\ UINew
  /\ ArgsIdle
  /\ mpc = "start"
  /\ mlinks = 0
  /\ mcursor = 0
  /\ minput = <<>>
  /\ mkey = ""
  /\ maction = "None"

SpecMain == InitMain /\ [][NextMain]_vars

\* C32: in the main loop of main.rs, once term_input has made Quit of Ctrl-C
\* or q the loop stops: nothing is rendered and no input is read after it,
\* the program is at its end.
MainLoopStopsOnQuit ==
  [][maction = "Quit" /\ mkey \in {"CtrlC", "q"} =>
       ~MainRender /\ ~MainTermInput /\ ~MainRead]_vars

====
